---------------------------- MODULE Spec2Model ----------------------------
(***************************************************************************)
(* A model of two parts of yt:                                             *)
(*                                                                         *)
(*  - src/src/lagos/BaseGridType.py, class EnzoGridBase: the child mask    *)
(*    of a grid, its lazily computed caches (myChildMask, myChildIndices,  *)
(*    coords) and the per-axis overlap masks;                              *)
(*  - src/yt/frontends/sph/data_structures.py: the particle geometry       *)
(*    handler, which fills and finalizes the octree index and plans the    *)
(*    chunks of a selection.                                               *)
(*                                                                         *)
(* Positions are integers on a lattice 0..MaxCoord; a quotient of two      *)
(* lattice lengths is kept as an exact fraction.  Axes are 1, 2, 3 here    *)
(* and 0, 1, 2 in the source.                                              *)
(***************************************************************************)
EXTENDS Integers, Sequences, FiniteSets, TLC

VARIABLES
    \* ---- the hierarchy's tables and the grid under study (EnzoGridBase)
    gridLeftEdge,       \* h.gridLeftEdge  : grid id -> 3-vector
    gridRightEdge,      \* h.gridRightEdge : grid id -> 3-vector
    gridLevels,         \* h.gridLevels    : grid id -> level
    ActiveDimensions,   \* self.ActiveDimensions of grid 1 (prepareGrid)
    dx,                 \* self.dx of grid 1, the fraction <<num, den>>
    privChildMask,      \* self.__myChildMask
    privChildIndices,   \* self.__myChildIndices
    myPrivateCoords,    \* self.myPrivateCoords
    instDict,           \* instance attributes myChildMask, myChildIndices,
                        \* coords set by plain assignment (classic class)
    myOverlapMasks,     \* grid id -> axis -> overlap mask or None
    \* ---- the fields of grid 1
    data,               \* self.data: resident field name -> array
    fileFields,         \* the names of the fields the grid's file holds
    requested,          \* the field name the last field operation was given
    \* ---- what the last operation on the grid did
    lastOp,             \* name of the last operation
    lastResult,         \* what it returned or raised
    warned,             \* whether it logged a warning
    \* ---- the particle geometry handler (ParticleGeometryHandler)
    pf,                 \* the parameter file's fields (OWLSStaticOutput)
    pc,                 \* where the handler is in _initialize_oct_handler
    domains,            \* self.domains: the ParticleDomainFiles, in order
    nextDom,            \* position of the loop of line 119 in self.domains
    oct_handler,        \* self.oct_handler: the octree index
    octLog,             \* the calls issued to the octree index, in order
    \* ---- the data object of a selection, and what the planner gave it
    dobj,               \* _chunk_info, size, _current_chunk
    counts,             \* what count_cells returned for it
    emitted,            \* the chunks of the last _chunk_all / _chunk_io
    nObjects,           \* data objects made so far
    \* ---- one ParticleDomainSubset whose accessors are called
    subset,             \* its attributes
    cellLevels,         \* the refinement level of each of its cells
    provided            \* whether code outside the two classes has given
                        \* the subsets level_counts and the domains domain_id

gridVars == <<gridLeftEdge, gridRightEdge, gridLevels, ActiveDimensions, dx,
              privChildMask, privChildIndices, myPrivateCoords, instDict,
              myOverlapMasks>>

particleVars == <<pf, pc, domains, nextDom, oct_handler, octLog, dobj, counts,
                  emitted, nObjects, subset, cellLevels, provided>>

fieldVars == <<data, fileFields, requested>>

vars == <<gridVars, fieldVars, particleVars, lastOp, lastResult, warned>>

-----------------------------------------------------------------------------
(* Bounds of the model.                                                    *)

MaxCoord == 4

\* The most domain files of a snapshot and the most cells count_cells
\* reports for a domain.
MaxDomains == 2
MaxCount == 2

\* The data objects made, and the calls to the index that are logged: those
\* of the initialisation and six more.
DataObjects == {1, 2}
MaxLog == MaxDomains + 6

\* The largest BoxSize and root_dimensions of a parameter file.
MaxBoxSize == 2
MaxRootDim == 2

Axes == {1, 2, 3}

\* The grids of the hierarchy, by id; grid 1 is the grid under study.
Grids == {1, 2, 3}

NumGrids == Cardinality(Grids)

Coord == 0..MaxCoord

\* Refinement levels of the tables; grid 1 is at level 1, so the other
\* grids can be coarser, at the same level, one level finer or two.
Levels == {0, 1, 2, 3}

-----------------------------------------------------------------------------
(* Arithmetic helpers.                                                     *)

\* numpy.rint(n/d) for d > 0: the nearest integer, a tie going to the even
\* one (IEEE round-half-to-even).
Rint(n, d) ==
    LET q == n \div d
        r == n - q * d
    IN  IF 2 * r < d THEN q
        ELSE IF 2 * r > d THEN q + 1
        ELSE IF q % 2 = 0 THEN q ELSE q + 1

\* The indices a Python slice [s:e] selects on an axis of length n: a
\* negative bound counts from the end, and bounds are clipped to 0..n.
SliceBound(b, n) ==
    LET w == IF b < 0 THEN b + n ELSE b
    IN  IF w < 0 THEN 0 ELSE IF w > n THEN n ELSE w

\* (a slice that also takes index e)
SliceIndicesClosed(s, e, n) ==
    {i \in 0..(n - 1) : SliceBound(s, n) <= i /\ i <= SliceBound(e, n)}

SliceIndices(s, e, n) ==
    {i \in 0..(n - 1) : SliceBound(s, n) <= i /\ i < SliceBound(e, n)}

\* The cells of an array of shape dims (0-based index triples).
CellsOf(dims) ==
    {c \in (0..(dims[1] - 1)) \X (0..(dims[2] - 1)) \X (0..(dims[3] - 1)) : TRUE}

-----------------------------------------------------------------------------
(* Values of an attribute.  Python's None, a missing instance attribute    *)
(* and an array are told apart by kind; val is <<>> unless kind = "array". *)

None == [kind |-> "None", val |-> <<>>]

Absent == [kind |-> "absent", val |-> <<>>]

Array(v) == [kind |-> "array", val |-> v]

\* Any other value (a number, a list, an object).
Value(v) == [kind |-> "value", val |-> v]

\* A raised exception, as the result of an operation.
Raised(e) == [kind |-> e, val |-> <<>>]

\* The empty dictionary {} of self.data (lines 46 and 243).
EmptyData == <<>>

\* `attr == None` / `attr != None` on a name-mangled class attribute whose
\* class-level default is None (lines 488-490): an instance that has never
\* assigned it reads the class's None.
IsNone(v) == v.kind \in {"None", "absent"}

-----------------------------------------------------------------------------
(* EnzoGridBase._generateChildMask, lines 429-459.  self is grid 1.        *)

\* self.LeftEdge, self.RightEdge, self.Level: prepareGrid's copies of
\* grid 1's rows of the tables (lines 130-132).
LeftEdge == gridLeftEdge[1]

RightEdge == gridRightEdge[1]

Level == gridLevels[1]

\* na.ones(self.ActiveDimensions, nT.Int32), line 434.
Ones(dims) == [c \in CellsOf(dims) |-> 1]

\* The mask of na.where at lines 437-444: the closed-interval overlap test
\* on the three axes and the level test.
IsChildCandidate(g) ==
    /\ RightEdge[1] >= gridLeftEdge[g][1]
    /\ LeftEdge[1] <= gridRightEdge[g][1]
    /\ RightEdge[2] >= gridLeftEdge[g][2]
    /\ LeftEdge[2] <= gridRightEdge[g][2]
    /\ RightEdge[3] >= gridLeftEdge[g][3]
    /\ LeftEdge[3] <= gridRightEdge[g][3]
    /\ gridLevels[g] = Level + 1

\* self.hierarchy.grids[myChildrenGrids]: the candidates in table order.
myChildrenGrids == SelectSeq([i \in 1..NumGrids |-> i], IsChildCandidate)

\* Lines 451-455: na.rint of (edge - self.LeftEdge)/self.dx, on every axis
\* with self.dx.  With dx = num/den the quotient is off*den/num.
StartIndex(child, a) ==
    Rint((gridLeftEdge[child][a] - LeftEdge[a]) * dx[2], dx[1])

EndIndex(child, a) ==
    Rint((gridRightEdge[child][a] - LeftEdge[a]) * dx[2], dx[1])

\* Line 458: mask[si[0]:ei[0], si[1]:ei[1], si[2]:ei[2]] = 0.
ZeroSlice(mask, child) ==
    LET dims == ActiveDimensions
        s1 == SliceIndices(StartIndex(child, 1), EndIndex(child, 1), dims[1])
        s2 == SliceIndices(StartIndex(child, 2), EndIndex(child, 2), dims[2])
        s3 == SliceIndices(StartIndex(child, 3), EndIndex(child, 3), dims[3])
    IN  [c \in DOMAIN mask |->
            IF c[1] \in s1 /\ c[2] \in s2 /\ c[3] \in s3 THEN 0 ELSE mask[c]]

\* The loop of lines 445-458 over the candidates left to visit.
RECURSIVE ChildLoop(_, _)
ChildLoop(mask, children) ==
    IF children = <<>> THEN mask
    ELSE LET child == Head(children)
         IN  IF gridLevels[child] > Level + 1
             THEN ChildLoop(mask, Tail(children))
             ELSE ChildLoop(ZeroSlice(mask, child), Tail(children))

\* The cells of an array of shape dims in C (row-major) order.
CellSeq(dims) ==
    [n \in 1..(dims[1] * dims[2] * dims[3]) |->
        << (n - 1) \div (dims[2] * dims[3]),
           ((n - 1) \div dims[3]) % dims[2],
           (n - 1) % dims[3] >>]

\* (the positions of the ones instead)
WhereOne(mask, dims) ==
    LET IsOne(c) == mask[c] = 1
    IN  SelectSeq(CellSeq(dims), IsOne)

\* na.where(mask == 0), line 459: the zero positions in C order.
WhereZero(mask, dims) ==
    LET IsZero(c) == mask[c] = 0
    IN  SelectSeq(CellSeq(dims), IsZero)

\* What _generateChildMask stores: the mask in self.__myChildMask (lines
\* 434-458) and the zero positions in self.__myChildIndices (line 459).
generateChildMask ==
    LET mask == ChildLoop(Ones(ActiveDimensions), myChildrenGrids)
    IN  [mask |-> mask, indices |-> WhereZero(mask, ActiveDimensions)]

-----------------------------------------------------------------------------
(* EnzoGridBase._generateCoords, lines 478-486.                            *)

RECURSIVE GCD(_, _)
GCD(a, b) == IF b = 0 THEN a ELSE GCD(b, a % b)

\* The fraction n/d (d > 0) in lowest terms.
Frac(n, d) ==
    LET g == GCD(IF n < 0 THEN -n ELSE n, d)
    IN  <<n \div g, d \div g>>

\* (ind + 0.5)*self.dx + LE, line 486: component a of cell c is
\* (c[a] + 1/2)*dx + LeftEdge[a], with self.dx on every axis.
GeneratedCoords ==
    [a \in Axes |->
        [c \in CellsOf(ActiveDimensions) |->
            Frac((2 * c[a] + 1) * dx[1] + 2 * dx[2] * LeftEdge[a], 2 * dx[2])]]

-----------------------------------------------------------------------------
(* Attribute access on the grid.  EnzoGridBase is declared                 *)
(* `class EnzoGridBase:` (line 30), a classic class of Python 2 (the file  *)
(* uses print statements, lines 421 and 471).  On an instance of a classic *)
(* class a property's getter runs when the instance has no attribute of    *)
(* that name, while `obj.name = v` and `del obj.name` never reach the      *)
(* property: they write and delete the instance's own attribute, which     *)
(* from then on hides the property.                                        *)

tableVars == <<gridLeftEdge, gridRightEdge, gridLevels, ActiveDimensions, dx>>

cacheVars == <<privChildMask, privChildIndices, myPrivateCoords>>

\* What an operation on the grid leaves behind: its name, what it returned
\* or raised, whether it logged a warning.  The particle handler is another
\* object, which it does not touch.
GridOp(op, result, w) ==
    /\ lastOp' = op
    /\ lastResult' = result
    /\ warned' = w
    /\ UNCHANGED fieldVars
    /\ UNCHANGED particleVars

\* self.myChildMask read: lines 410-413 behind the property of line 493.
GetMyChildMask ==
    /\ IF instDict.myChildMask # Absent
       THEN /\ GridOp("get myChildMask", instDict.myChildMask, FALSE)
            /\ UNCHANGED cacheVars
       ELSE IF IsNone(privChildMask)
       THEN LET made == generateChildMask
            IN  /\ privChildMask' = Array(made.mask)
                /\ privChildIndices' = Array(made.indices)
                /\ GridOp("get myChildMask", Array(made.mask), FALSE)
                /\ UNCHANGED myPrivateCoords
       ELSE /\ GridOp("get myChildMask", privChildMask, FALSE)
            /\ UNCHANGED cacheVars
    /\ UNCHANGED <<tableVars, instDict, myOverlapMasks>>

\* self.myChildIndices read: lines 415-418 behind the property of line 494.
GetMyChildIndices ==
    /\ IF instDict.myChildIndices # Absent
       THEN /\ GridOp("get myChildIndices", instDict.myChildIndices, FALSE)
            /\ UNCHANGED cacheVars
       ELSE IF IsNone(privChildIndices)
       THEN LET made == generateChildMask
            IN  /\ privChildMask' = Array(made.mask)
                /\ privChildIndices' = Array(made.indices)
                /\ GridOp("get myChildIndices", Array(made.indices), FALSE)
                /\ UNCHANGED myPrivateCoords
       ELSE /\ GridOp("get myChildIndices", privChildIndices, FALSE)
            /\ UNCHANGED cacheVars
    /\ UNCHANGED <<tableVars, instDict, myOverlapMasks>>

\* self.coords read: lines 461-463 behind the property of line 492.
GetCoords ==
    /\ IF instDict.coords # Absent
       THEN /\ GridOp("get coords", instDict.coords, FALSE)
            /\ UNCHANGED cacheVars
       ELSE IF IsNone(myPrivateCoords)
       THEN /\ myPrivateCoords' = Array(GeneratedCoords)
            /\ GridOp("get coords", Array(GeneratedCoords), FALSE)
            /\ UNCHANGED <<privChildMask, privChildIndices>>
       ELSE /\ GridOp("get coords", myPrivateCoords, FALSE)
            /\ UNCHANGED cacheVars
    /\ UNCHANGED <<tableVars, instDict, myOverlapMasks>>

\* `grid.<name> = v` from outside or inside the class: none of the three
\* properties (lines 492-494) is given the _set_ method of its cache, and
\* on a classic instance the assignment stores an instance attribute.
AssignAttr(name, v) ==
    /\ instDict' = [instDict EXCEPT ![name] = v]
    /\ GridOp("assign " \o name, None, FALSE)
    /\ UNCHANGED <<tableVars, cacheVars, myOverlapMasks>>

\* `del grid.<name>`: deletes the instance attribute, AttributeError when
\* the instance has none.
DelAttr(name) ==
    /\ IF instDict[name] = Absent
       THEN /\ GridOp("del " \o name, Raised("AttributeError"), FALSE)
            /\ UNCHANGED instDict
       ELSE /\ instDict' = [instDict EXCEPT ![name] = Absent]
            /\ GridOp("del " \o name, None, FALSE)
    /\ UNCHANGED <<tableVars, cacheVars, myOverlapMasks>>

\* _set_myChildMask(newCM), lines 400-403.
SetMyChildMask(newCM) ==
    /\ privChildMask' = newCM
    /\ GridOp("_set_myChildMask", None, ~IsNone(privChildMask))
    /\ UNCHANGED <<tableVars, privChildIndices, myPrivateCoords, instDict,
                   myOverlapMasks>>

\* _set_myChildIndices(newCI), lines 405-408.
SetMyChildIndices(newCI) ==
    /\ privChildIndices' = newCI
    /\ GridOp("_set_myChildIndices", None, ~IsNone(privChildIndices))
    /\ UNCHANGED <<tableVars, privChildMask, myPrivateCoords, instDict,
                   myOverlapMasks>>

\* _set_coords(newC), lines 465-468.
SetCoords(newC) ==
    /\ myPrivateCoords' = newC
    /\ GridOp("_set_coords", None, ~IsNone(myPrivateCoords))
    /\ UNCHANGED <<tableVars, privChildMask, privChildIndices, instDict,
                   myOverlapMasks>>

\* _del_myChildMask(), lines 425-426: pass.
DelMyChildMask ==
    /\ GridOp("_del_myChildMask", None, FALSE)
    /\ UNCHANGED <<tableVars, cacheVars, instDict, myOverlapMasks>>

\* _del_myChildIndices(), lines 420-423: `del self.__myChildIndices`
\* raises AttributeError while the instance has not assigned it (the None
\* of line 490 belongs to the class).
DelMyChildIndices ==
    /\ IF privChildIndices = Absent
       THEN /\ GridOp("_del_myChildIndices", Raised("AttributeError"), FALSE)
            /\ UNCHANGED privChildIndices
       ELSE /\ privChildIndices' = None
            /\ GridOp("_del_myChildIndices", None, FALSE)
    /\ UNCHANGED <<tableVars, privChildMask, myPrivateCoords, instDict,
                   myOverlapMasks>>

\* _del_coords(), lines 470-473.
DelCoords ==
    /\ IF myPrivateCoords = Absent
       THEN /\ GridOp("_del_coords", Raised("AttributeError"), FALSE)
            /\ UNCHANGED myPrivateCoords
       ELSE /\ myPrivateCoords' = None
            /\ GridOp("_del_coords", None, FALSE)
    /\ UNCHANGED <<tableVars, privChildMask, privChildIndices, instDict,
                   myOverlapMasks>>

\* The body of clearDerivedQuantities, lines 496-503 (the definition of
\* lines 246-253 is replaced by this later one of the same name): three
\* plain assignments of None.
ClearedInstDict ==
    [myChildMask |-> None, myChildIndices |-> None, coords |-> None]

clearDerivedQuantities ==
    /\ instDict' = ClearedInstDict
    /\ GridOp("clearDerivedQuantities", None, FALSE)
    /\ UNCHANGED <<tableVars, cacheVars, myOverlapMasks>>

\* clearAll, lines 234-244: empties the field dictionary (self.data = {},
\* line 243) and calls clearDerivedQuantities.
clearAll ==
    /\ data' = EmptyData
    /\ instDict' = ClearedInstDict
    /\ lastOp' = "clearAll"
    /\ lastResult' = None
    /\ warned' = FALSE
    /\ UNCHANGED <<tableVars, cacheVars, myOverlapMasks, fileFields, requested>>
    /\ UNCHANGED particleVars

-----------------------------------------------------------------------------
(* Hierarchies.  A box is [lo |-> 3-vector, hi |-> 3-vector] with          *)
(* lo[a] < hi[a]: a grid has at least one cell of positive size per axis.  *)

Intervals == {iv \in Coord \X Coord : iv[1] < iv[2]}

Box(i1, i2, i3) ==
    [lo |-> <<i1[1], i2[1], i3[1]>>, hi |-> <<i1[2], i2[2], i3[2]>>]


Width(b, a) == b.hi[a] - b.lo[a]

\* prepareGrid, lines 126-150, for grid 1 of a hierarchy whose tables hold
\* the boxes and levels given: the tables' rows, ActiveDimensions =
\* EndIndices - StartIndices + 1 (= dims), and dx = (RightEdge[0] -
\* LeftEdge[0]) / ActiveDimensions[0] (lines 144-145).  The optional
\* ReconstructHierarchy pass (lines 151-162) is off.
prepareGrid(boxes, levels, dims) ==
    /\ gridLeftEdge' = [g \in Grids |-> boxes[g].lo]
    /\ gridRightEdge' = [g \in Grids |-> boxes[g].hi]
    /\ gridLevels' = levels
    /\ ActiveDimensions' = dims
    /\ dx' = <<boxes[1].hi[1] - boxes[1].lo[1], dims[1]>>

\* The same, as the state after construction.
Prepared(boxes, levels, dims) ==
    /\ gridLeftEdge = [g \in Grids |-> boxes[g].lo]
    /\ gridRightEdge = [g \in Grids |-> boxes[g].hi]
    /\ gridLevels = levels
    /\ ActiveDimensions = dims
    /\ dx = <<boxes[1].hi[1] - boxes[1].lo[1], dims[1]>>

\* __init__, lines 45-51, and the class attributes of lines 488-490.
FreshGrid ==
    /\ privChildMask = Absent
    /\ privChildIndices = Absent
    /\ myPrivateCoords = Absent
    /\ instDict = [myChildMask |-> Absent, myChildIndices |-> Absent,
                   coords |-> Absent]
    /\ myOverlapMasks = [g \in Grids |-> [a \in Axes |-> None]]
    /\ data = EmptyData
    /\ requested = <<>>
    /\ lastOp = "__init__"
    /\ lastResult = None
    /\ warned = FALSE

-----------------------------------------------------------------------------
(* OWLSStaticOutput._parse_parameter_file, lines 183-210: the fields the   *)
(* handler and the subsets read.                                           *)

parse_parameter_file(BoxSize, root_dimensions, NumFilesPerSnapshot) ==
    [domain_left_edge |-> <<0, 0, 0>>,
     domain_right_edge |-> <<BoxSize, BoxSize, BoxSize>>,
     domain_dimensions |-> <<root_dimensions, root_dimensions, root_dimensions>>,
     domain_count |-> NumFilesPerSnapshot]

-----------------------------------------------------------------------------
(* The octree index, ParticleOctreeContainer of yt.geometry.oct_container. *)
(* Its code is not part of the sources at hand; this is its contract:      *)
(* insertion only before finalize, finalize a one-way transition, queries  *)
(* only after it.  A call returns [ok, oct]: whether it succeeded and the  *)
(* index after it.                                                         *)

NoOctree == [exists |-> FALSE, added |-> <<>>, finalized |-> FALSE]

NewOctree == [exists |-> TRUE, added |-> <<>>, finalized |-> FALSE]

\* (an index that takes insertions at any time)
OctAddAnyTime(o, d) == [ok |-> TRUE, oct |-> [o EXCEPT !.added = Append(@, d)]]

\* Insertion of a domain's particles.
OctAdd(o, d) ==
    IF o.finalized
    THEN [ok |-> FALSE, oct |-> o]
    ELSE [ok |-> TRUE, oct |-> [o EXCEPT !.added = Append(@, d)]]

OctFinalize(o) == [ok |-> TRUE, oct |-> [o EXCEPT !.finalized = TRUE]]

\* linearly_count, select_octs, count_cells, icoords, fcoords, ires.
OctQuery(o) == [ok |-> o.finalized, oct |-> o]

Queries ==
    {"linearly_count", "select_octs", "count_cells", "icoords", "fcoords", "ires"}

Call(op, arg, ok) == [op |-> op, arg |-> arg, ok |-> ok]

-----------------------------------------------------------------------------
(* ParticleGeometryHandler._initialize_oct_handler, lines 107-123, step by *)
(* step.                                                                   *)

\* What a step of the handler leaves behind; the grid is another object.
HandlerOp(op, result) ==
    /\ lastOp' = op
    /\ lastResult' = result
    /\ warned' = FALSE
    /\ UNCHANGED gridVars
    /\ UNCHANGED fieldVars

queryVars == <<dobj, counts, emitted, nObjects, subset, cellLevels>>

\* Lines 108-118: the domain files 0..ndoms-1 and an empty index.
SetupDomains ==
    /\ pc = "start"
    /\ domains' = [i \in 1..pf.domain_count |-> [domain_number |-> i - 1]]
    /\ oct_handler' = NewOctree
    /\ nextDom' = 1
    /\ pc' = "insert"
    /\ HandlerOp("_initialize_oct_handler", None)
    /\ UNCHANGED <<pf, octLog, queryVars, provided>>

\* (finalize as soon as one domain is in)
AllDomainsVisitedEarly == nextDom > 1

\* The loop of line 119 has gone through self.domains.
AllDomainsVisited == nextDom > Len(domains)

\* Line 120: self.io._initialize_octree(dom, self.oct_handler), which
\* inserts the domain's particles.
InitializeOctree ==
    /\ pc = "insert"
    /\ ~AllDomainsVisited
    /\ LET d == domains[nextDom].domain_number
           r == OctAdd(oct_handler, d)
       IN  /\ oct_handler' = r.oct
           /\ octLog' = Append(octLog, Call("add", d, r.ok))
           /\ pc' = IF r.ok THEN "insert" ELSE "raised"
           /\ HandlerOp("_initialize_octree",
                        IF r.ok THEN None ELSE Raised("InvalidOctreeState"))
    /\ nextDom' = nextDom + 1
    /\ UNCHANGED <<pf, domains, queryVars, provided>>

\* Line 121: self.oct_handler.finalize().
Finalize ==
    /\ pc = "insert"
    /\ AllDomainsVisited
    /\ LET r == OctFinalize(oct_handler)
       IN  /\ oct_handler' = r.oct
           /\ octLog' = Append(octLog, Call("finalize", 0, r.ok))
    /\ pc' = "count"
    /\ HandlerOp("finalize", None)
    /\ UNCHANGED <<pf, domains, nextDom, queryVars, provided>>

\* Lines 122-123: tot = self.oct_handler.linearly_count().
LinearlyCount ==
    /\ pc = "count"
    /\ LET r == OctQuery(oct_handler)
       IN  /\ octLog' = Append(octLog, Call("linearly_count", 0, r.ok))
           /\ pc' = IF r.ok THEN "ready" ELSE "raised"
           /\ HandlerOp("linearly_count",
                        IF r.ok THEN None ELSE Raised("InvalidOctreeState"))
    /\ UNCHANGED <<pf, domains, nextDom, oct_handler, queryVars, provided>>

-----------------------------------------------------------------------------
(* ParticleDomainSubset, lines 64-93.                                      *)

\* __init__, lines 65-69.
ParticleDomainSubset(domain, mask, count) ==
    [domain |-> domain, mask |-> mask, cell_count |-> count]

\* The octree levels a cell can be on.
OctLevels == {0, 1}

\* There is room in the log of calls for n more.
LogRoom(n) == Len(octLog) + n <= MaxLog

\* ires, lines 90-93, called on subset s; lv is the level of each of its
\* cells in the index.  The method reads self.domain.domain_id and
\* self.level_counts, which neither class assigns.
ires(s, lv) ==
    IF ~provided
    THEN [result |-> Raised("AttributeError"), log |-> octLog]
    ELSE LET r == OctQuery(oct_handler)
         IN  [result |-> IF r.ok THEN Array(lv) ELSE Raised("InvalidOctreeState"),
              log |-> Append(octLog, Call("ires", 0, r.ok))]

Pow2(n) == 2 ^ n

\* Line 83: base_dx = 1.0/self.domain.pf.domain_dimensions.
base_dx(a) == Frac(1, pf.domain_dimensions[a])

\* fwidth, lines 81-88: one row of three widths per cell.
fwidth(s, lv) ==
    LET r == ires(s, lv)
    IN  IF r.result.kind # "array"
        THEN r
        ELSE [result |-> Array([i \in 1..s.cell_count |->
                                   [a \in Axes |->
                                       Frac(base_dx(a)[1],
                                            base_dx(a)[2] * Pow2(r.result.val[i]))]]),
              log |-> r.log]

\* What the index answers to icoords or fcoords for the arguments it is
\* given: one value per (query, domain, mask, cell_count).
OctAnswer(q, s) ==
    [query |-> q, domain |-> s.domain.domain_number, mask |-> s.mask,
     cell_count |-> s.cell_count]

\* icoords (q = "icoords", lines 71-74) and fcoords (q = "fcoords", lines
\* 76-79) on subset s: like ires they read self.domain.domain_id and
\* self.level_counts before the index is called.
coords(q, s) ==
    IF ~provided
    THEN [result |-> Raised("AttributeError"), log |-> octLog]
    ELSE LET r == OctQuery(oct_handler)
         IN  [result |-> IF r.ok THEN Array(OctAnswer(q, s))
                         ELSE Raised("InvalidOctreeState"),
              log |-> Append(octLog, Call(q, 0, r.ok))]

subsetFrame == <<pf, pc, domains, nextDom, oct_handler, dobj, counts, emitted,
                 nObjects, subset, cellLevels, provided>>

Ires(s, lv) ==
    /\ pc = "ready"
    /\ LogRoom(1)
    /\ LET r == ires(s, lv)
       IN  /\ octLog' = r.log
           /\ HandlerOp("ires", r.result)
    /\ UNCHANGED subsetFrame

Fwidth(s, lv) ==
    /\ pc = "ready"
    /\ LogRoom(1)
    /\ LET r == fwidth(s, lv)
       IN  /\ octLog' = r.log
           /\ HandlerOp("fwidth", r.result)
    /\ UNCHANGED subsetFrame

Icoords(s) ==
    /\ pc = "ready"
    /\ LogRoom(1)
    /\ LET r == coords("icoords", s)
       IN  /\ octLog' = r.log
           /\ HandlerOp("icoords", r.result)
    /\ UNCHANGED subsetFrame

Fcoords(s) ==
    /\ pc = "ready"
    /\ LogRoom(1)
    /\ LET r == coords("fcoords", s)
       IN  /\ octLog' = r.log
           /\ HandlerOp("fcoords", r.result)
    /\ UNCHANGED subsetFrame

-----------------------------------------------------------------------------
(* Chunking, lines 141-162.  A data object is [selector, chunk_info, size, *)
(* current_chunk]; its class is not part of the sources at hand, a new     *)
(* object has _chunk_info = None and _current_chunk = None.                *)

Selectors == {"all", "region"}

NewDobj(sel) ==
    [selector |-> sel, chunk_info |-> None, size |-> None, current_chunk |-> None]

YTDataChunk(chunk_type, objs, data_size) ==
    [chunk_type |-> chunk_type, objs |-> objs, data_size |-> data_size]

RECURSIVE Sum(_)
Sum(seq) == IF seq = <<>> THEN 0 ELSE Head(seq) + Sum(Tail(seq))

\* (a subset for every domain)
KeepAll(c) == c >= 0

\* Line 146: if c > 0.
Keep(c) == c > 0

\* Lines 145-146: [ParticleDomainSubset(d, mask, c)
\*                 for d, c in zip(self.domains, counts) if c > 0].
RECURSIVE Subsets(_, _, _)
Subsets(doms, cs, mask) ==
    IF doms = <<>> \/ cs = <<>>
    THEN <<>>
    ELSE (IF Keep(Head(cs))
          THEN <<ParticleDomainSubset(Head(doms), mask, Head(cs))>>
          ELSE <<>>) \o Subsets(Tail(doms), Tail(cs), mask)

\* Lines 153 and 160: getattr(dobj._current_chunk, "objs", dobj._chunk_info).
oobjs(d) ==
    IF d.current_chunk = None THEN d.chunk_info.val ELSE d.current_chunk.val.objs

\* _chunk_all, lines 152-154.
chunk_all(d) == <<YTDataChunk("all", oobjs(d), d.size.val)>>

\* (one chunk for all objects, for either request)
chunk_io_fused(d) == <<YTDataChunk("io", oobjs(d), d.size.val)>>

\* _chunk_io, lines 159-162.
chunk_io(d) ==
    [i \in 1..Len(oobjs(d)) |-> YTDataChunk("io", <<oobjs(d)[i]>>, oobjs(d)[i].cell_count)]

\* The mask select_octs returns for a selector.
Mask(sel) == [selected_by |-> sel]

\* The possible answers of count_cells: a count per domain.
CountVectors == [DOMAIN domains -> 0..MaxCount]

chunkFrame == <<pf, pc, domains, nextDom, oct_handler, subset, cellLevels, provided>>

\* _identify_base_chunk, lines 141-150, on data object d; cs is what
\* count_cells returns.
identify_base_chunk(d, cs) ==
    LET info == IF d.chunk_info = None
                THEN [d EXCEPT !.chunk_info =
                                   Value(Subsets(domains, cs, Mask(d.selector))),
                               !.size = Value(Sum(cs))]
                ELSE d
    IN  [info EXCEPT !.current_chunk = Value(chunk_all(info)[1])]

\* Lines 143-144: the two calls it makes to the index.
SelectAndCount ==
    <<Call("select_octs", 0, OctQuery(oct_handler).ok),
      Call("count_cells", 0, OctQuery(oct_handler).ok)>>

IdentifyBaseChunk ==
    /\ pc = "ready"
    /\ IF dobj.chunk_info = None
       THEN /\ LogRoom(2)
            /\ octLog' = octLog \o SelectAndCount
            /\ \E cs \in CountVectors :
                  /\ counts' = cs
                  /\ dobj' = identify_base_chunk(dobj, cs)
       ELSE /\ dobj' = identify_base_chunk(dobj, counts)
            /\ UNCHANGED <<octLog, counts>>
    /\ HandlerOp("_identify_base_chunk", None)
    /\ UNCHANGED <<chunkFrame, emitted, nObjects>>

ChunkAll ==
    /\ pc = "ready"
    /\ dobj.chunk_info # None
    /\ emitted' = chunk_all(dobj)
    /\ HandlerOp("_chunk_all", None)
    /\ UNCHANGED <<chunkFrame, octLog, dobj, counts, nObjects>>

ChunkIo ==
    /\ pc = "ready"
    /\ dobj.chunk_info # None
    /\ emitted' = chunk_io(dobj)
    /\ HandlerOp("_chunk_io", None)
    /\ UNCHANGED <<chunkFrame, octLog, dobj, counts, nObjects>>

\* The consumer of the chunks works on one of those it was given: it makes
\* it the object's current chunk.
UseChunk ==
    /\ pc = "ready"
    /\ \E i \in DOMAIN emitted :
          dobj' = [dobj EXCEPT !.current_chunk = Value(emitted[i])]
    /\ HandlerOp("use chunk", None)
    /\ UNCHANGED <<chunkFrame, octLog, counts, emitted, nObjects>>

\* Another data object, for another selection.
NewDataObject ==
    /\ pc = "ready"
    /\ nObjects < Cardinality(DataObjects)
    /\ nObjects' = nObjects + 1
    /\ \E sel \in Selectors : dobj' = NewDobj(sel)
    /\ counts' = <<>>
    /\ emitted' = <<>>
    /\ HandlerOp("new data object", None)
    /\ UNCHANGED <<chunkFrame, octLog>>

-----------------------------------------------------------------------------
(* The states in which one of the two subsystems is not in use.            *)

IdleParticles ==
    /\ pf = parse_parameter_file(1, 1, 1)
    /\ pc = "idle"
    /\ domains = <<>>
    /\ nextDom = 1
    /\ oct_handler = NoOctree
    /\ octLog = <<>>
    /\ dobj = NewDobj("all")
    /\ counts = <<>>
    /\ emitted = <<>>
    /\ nObjects = 1
    /\ subset = None
    /\ cellLevels = <<>>
    /\ provided = FALSE

-----------------------------------------------------------------------------
(* SpecMask: the child mask of grid 1 over a range of hierarchies.         *)

\* Grid 1: at level 1, reaching to the end of the lattice, from the origin
\* or from an inner corner.
SelfBoxes ==
    {Box(<<l[1], MaxCoord>>, <<l[2], MaxCoord>>, <<l[3], MaxCoord>>) :
        l \in {<<0, 0, 0>>, <<1, 0, 1>>}}

\* Its cells: unit cells on every axis, one cell per axis, or a mix (then
\* dx, dy and dz differ).
SelfDims(b) ==
    { <<Width(b, 1), Width(b, 2), Width(b, 3)>>,
      <<1, 1, 1>>,
      <<Width(b, 1), 1, Width(b, 3)>>,
      <<1, Width(b, 2), 1>> }

\* Grid 2: any extent on the first two axes; on the third the whole
\* lattice or the second unit cell.
SecondBoxes ==
    {Box(i1, i2, i3) : i1 \in Intervals, i2 \in Intervals,
                       i3 \in {<<0, MaxCoord>>, <<1, 2>>}}

\* Grid 3: a cube that starts at 0 or 1, one level finer than grid 1.
ThirdBoxes == {Box(i, i, i) : i \in {iv \in Intervals : iv[1] <= 1}}

InitMask ==
    /\ \E b1 \in SelfBoxes, b2 \in SecondBoxes, b3 \in ThirdBoxes :
         \E dims \in SelfDims(b1), l2 \in Levels :
            Prepared(<<b1, b2, b3>>, <<1, l2, 2>>, dims)
    /\ FreshGrid
    /\ fileFields = {}
    /\ IdleParticles

NextMask ==
    \/ GetMyChildMask
    \/ GetMyChildIndices

SpecMask == InitMask /\ [][NextMask]_vars

-----------------------------------------------------------------------------
(* SpecCache: every operation on the three caches of grid 1, over a small  *)
(* hierarchy that can be parsed again between the operations.              *)

\* Grid 1 is (0,0,0)-(2,1,1) with 2x1x1 unit cells; grid 2 covers its first
\* cell or both, and is its child (level 2) or not (level 1); grid 3 is a
\* sibling next to it.
CacheBoxes ==
    {Box(i1, <<0, 1>>, <<0, 1>>) : i1 \in {<<0, 1>>, <<0, 2>>}}

CacheHierarchies ==
    {[boxes |-> <<Box(<<0, 2>>, <<0, 1>>, <<0, 1>>), b2,
                  Box(<<2, 3>>, <<0, 1>>, <<0, 1>>)>>,
      levels |-> <<1, l2, 1>>,
      dims |-> <<2, 1, 1>>] : b2 \in CacheBoxes, l2 \in {1, 2}}

\* The hierarchy is read again (its tables change) and prepareGrid copies
\* the new rows into the grid; the caches are not touched.
PrepareGrid ==
    /\ \E h \in CacheHierarchies : prepareGrid(h.boxes, h.levels, h.dims)
    /\ GridOp("prepareGrid", None, FALSE)
    /\ UNCHANGED <<cacheVars, instDict, myOverlapMasks>>

\* Values a caller passes to a setter or assigns to an attribute.
MaskValues ==
    {None, Array([Ones(<<2, 1, 1>>) EXCEPT ![<<1, 0, 0>>] = 0])}

IndicesValues == {None, Array(<< <<0, 0, 0>> >>)}

CoordsValues ==
    {None, Array([a \in Axes |-> [c \in CellsOf(<<2, 1, 1>>) |-> <<0, 1>>]])}

AttrValues(name) ==
    CASE name = "myChildMask" -> MaskValues
      [] name = "myChildIndices" -> IndicesValues
      [] name = "coords" -> CoordsValues

AttrNames == {"myChildMask", "myChildIndices", "coords"}

InitCache ==
    /\ \E h \in CacheHierarchies : Prepared(h.boxes, h.levels, h.dims)
    /\ FreshGrid
    /\ fileFields = {}
    /\ IdleParticles

NextCache ==
    \/ GetMyChildMask
    \/ GetMyChildIndices
    \/ GetCoords
    \/ \E name \in AttrNames : \E v \in AttrValues(name) : AssignAttr(name, v)
    \/ \E name \in AttrNames : DelAttr(name)
    \/ \E v \in MaskValues : SetMyChildMask(v)
    \/ \E v \in IndicesValues : SetMyChildIndices(v)
    \/ \E v \in CoordsValues : SetCoords(v)
    \/ DelMyChildMask
    \/ DelMyChildIndices
    \/ DelCoords
    \/ clearDerivedQuantities
    \/ clearAll
    \/ PrepareGrid

SpecCache == InitCache /\ [][NextCache]_vars

-----------------------------------------------------------------------------
(* C1.  The child mask against the footprints of the interior children.    *)

\* The integer nearest to n/d (d > 0), a tie going to the even one, stated
\* by its defining property.
Nearest(n, d) ==
    CHOOSE k \in -(MaxCoord * MaxCoord + 1)..(MaxCoord * MaxCoord + 1) :
        LET e == IF n - k * d < 0 THEN k * d - n ELSE n - k * d
        IN  \/ 2 * e < d
            \/ 2 * e = d /\ k % 2 = 0

\* The index footprint of grid g in grid 1, per the claim: on each axis the
\* cells from round((g.LeftEdge - LeftEdge)/cell size) up to, not
\* including, round((g.RightEdge - LeftEdge)/cell size), the cell size
\* being grid 1's dx = (RightEdge[0] - LeftEdge[0])/ActiveDimensions[0].
Footprint(g) ==
    LET w == gridRightEdge[1][1] - gridLeftEdge[1][1]
        n == ActiveDimensions[1]
        lo(a) == Nearest((gridLeftEdge[g][a] - gridLeftEdge[1][a]) * n, w)
        hi(a) == Nearest((gridRightEdge[g][a] - gridLeftEdge[1][a]) * n, w)
        lo1 == lo(1)
        hi1 == hi(1)
        lo2 == lo(2)
        hi2 == hi(2)
        lo3 == lo(3)
        hi3 == hi(3)
    IN  {c \in CellsOf(ActiveDimensions) :
            /\ lo1 <= c[1] /\ c[1] < hi1
            /\ lo2 <= c[2] /\ c[2] < hi2
            /\ lo3 <= c[3] /\ c[3] < hi3}

\* g's box lies fully inside grid 1's box.
Inside(g) ==
    \A a \in Axes : /\ gridLeftEdge[1][a] <= gridLeftEdge[g][a]
                    /\ gridRightEdge[g][a] <= gridRightEdge[1][a]

\* g's faces lie on cell boundaries of grid 1: on axis a the cells are
\* (RightEdge[a] - LeftEdge[a])/ActiveDimensions[a] wide.
Aligned(g) ==
    \A a \in Axes :
        LET w == gridRightEdge[1][a] - gridLeftEdge[1][a]
        IN  /\ ((gridLeftEdge[g][a] - gridLeftEdge[1][a]) * ActiveDimensions[a]) % w = 0
            /\ ((gridRightEdge[g][a] - gridLeftEdge[1][a]) * ActiveDimensions[a]) % w = 0

\* g's box and grid 1's box are apart on some axis.
Apart(g) ==
    \E a \in Axes : \/ gridRightEdge[g][a] < gridLeftEdge[1][a]
                    \/ gridLeftEdge[g][a] > gridRightEdge[1][a]

NextLevel == {g \in Grids : gridLevels[g] = gridLevels[1] + 1}

InteriorChildren == {g \in NextLevel : Inside(g) /\ Aligned(g)}

-----------------------------------------------------------------------------
(* SpecMaskAny: the child mask of a grid in the middle of the lattice,     *)
(* among grids of any level that lie apart from it, touch it, overlap it   *)
(* in part or hold it.                                                     *)

\* Grid 1 is (1,1,1)-(3,3,3) at level 1, with the cells of SelfDims.
\* Grid 2: any extent on the first two axes; on the third one that holds
\* grid 1's, touches it on the high side, or touches it on the low side;
\* at any level.  Grid 3: the first octant of grid 1, one or two levels
\* finer.
AnyThirdAxis == {<<1, 3>>, <<3, 4>>, <<0, 1>>}

InitMaskAny ==
    /\ \E i1 \in Intervals, i2 \in Intervals, i3 \in AnyThirdAxis :
         \E dims \in SelfDims(Box(<<1, 3>>, <<1, 3>>, <<1, 3>>)) :
            \E l2 \in Levels, l3 \in {2, 3} :
               Prepared(<<Box(<<1, 3>>, <<1, 3>>, <<1, 3>>), Box(i1, i2, i3),
                          Box(<<1, 2>>, <<1, 2>>, <<1, 2>>)>>,
                        <<1, l2, l3>>, dims)
    /\ FreshGrid
    /\ fileFields = {}
    /\ IdleParticles

SpecMaskAny == InitMaskAny /\ [][NextMask]_vars

-----------------------------------------------------------------------------
(* C14  For any grid G at level L among any other grids,                   *)
(* _generateChildMask completes without error, and a cell of G's mask is   *)
(* 0 only if it lies in the index footprint of a grid at level L+1 whose   *)
(* box overlaps G's box: grids at other levels and level-(L+1) grids that  *)
(* only touch G's boundary zero no cell.                                   *)

\* g's box and grid 1's box have a common part of positive size.
Overlapping(g) ==
    \A a \in Axes : /\ gridLeftEdge[g][a] < gridRightEdge[1][a]
                    /\ gridLeftEdge[1][a] < gridRightEdge[g][a]

C14_Original ==
    /\ lastOp \in {"get myChildMask", "get myChildIndices"} =>
          lastResult.kind = "array"
    /\ privChildMask.kind = "array" =>
          LET mask == privChildMask.val
              zeros == {c \in DOMAIN mask : mask[c] = 0}
          IN  zeros \subseteq
                  UNION {Footprint(g) : g \in {h \in NextLevel : Overlapping(h)}}

-----------------------------------------------------------------------------
(* C2.  ChildIndices against the zero positions of ChildMask.              *)

\* Both caches computed => the positions listed by ChildIndices are exactly
\* the zero positions of ChildMask, each listed once, and no more of them
\* than the mask has cells.
IndicesMatchMask ==
    (privChildMask.kind = "array" /\ privChildIndices.kind = "array") =>
        LET mask == privChildMask.val
            idx == privChildIndices.val
            zeros == {c \in DOMAIN mask : mask[c] = 0}
        IN  /\ {idx[i] : i \in DOMAIN idx} = zeros
            /\ Len(idx) = Cardinality(zeros)
            /\ Cardinality(zeros) <= Cardinality(DOMAIN mask)

\* C2 as claimed: in every state reachable by reads, deletions, the two
\* setters and clearDerivedQuantities, whenever both caches are computed
\* ChildIndices equals exactly the zero positions of ChildMask.
C2_Original == IndicesMatchMask

Setters == {"_set_myChildMask", "_set_myChildIndices"}

\* C2 amended: every operation other than a call of _set_myChildMask or
\* _set_myChildIndices keeps ChildIndices equal to the zero positions of
\* ChildMask whenever both caches are computed; so the equality holds in
\* every state reached by reads, deletions, clearDerivedQuantities and
\* re-preparation of the grid alone.
C2_IndicesMatchMaskUnlessSet ==
    [][(IndicesMatchMask /\ lastOp' \notin Setters) => IndicesMatchMask']_vars

\* Both caches regenerated by a read of myChildIndices after the indices
\* were deleted, with a child covering part of the grid.
C2_Witness ==
    /\ lastOp = "get myChildIndices"
    /\ privChildMask.kind = "array"
    /\ privChildIndices.kind = "array"
    /\ lastResult = privChildIndices
    /\ privChildIndices.val = << <<0, 0, 0>> >>
    /\ privChildMask.val[<<0, 0, 0>>] = 0
    /\ privChildMask.val[<<1, 0, 0>>] = 1

-----------------------------------------------------------------------------
(* C6.  Invalidation.                                                      *)

Clears == {"clearDerivedQuantities", "clearAll"}

\* C6 as claimed: after clearDerivedQuantities or clearAll, ChildMask,
\* ChildIndices and Coords are all three in the not-computed state (no
\* value computed before the call is kept).
C6_Original ==
    lastOp \in Clears =>
        /\ IsNone(privChildMask)
        /\ IsNone(privChildIndices)
        /\ IsNone(myPrivateCoords)

-----------------------------------------------------------------------------
(* C7.  Overwriting a computed cache.                                      *)

Computed(name) ==
    CASE name = "myChildMask" -> ~IsNone(privChildMask)
      [] name = "myChildIndices" -> ~IsNone(privChildIndices)
      [] name = "coords" -> ~IsNone(myPrivateCoords)

\* C7 as claimed: assigning to ChildMask, ChildIndices or Coords while the
\* cache holds a computed value emits a warning (and does not raise);
\* assigning to a cache that is not computed emits none.
C7_Original ==
    [][\A name \in AttrNames :
          lastOp' = "assign " \o name =>
              /\ warned' = Computed(name)
              /\ lastResult' = None]_vars

-----------------------------------------------------------------------------
(* EnzoGridBase.generateOverlapMasks, lines 166-187.                       *)

\* x_dict and y_dict of yt.lagos: the two in-plane axes of a line of sight
\* along axis, 0 -> (1, 2), 1 -> (0, 2), 2 -> (0, 1); here axes are 1..3.
x_dict == <<2, 1, 1>>

y_dict == <<3, 3, 2>>

\* (the test with closed intervals)
OverlapTestClosed(le, re, candLE, candRE, x, y) ==
    /\ re[x] >= candLE[x]
    /\ le[x] <= candRE[x]
    /\ re[y] >= candLE[y]
    /\ le[y] <= candRE[y]

\* cond1..cond4 and their conjunction, lines 182-187, for one candidate:
\* le, re are self.LeftEdge, self.RightEdge and candLE, candRE a row of
\* LE, RE.
OverlapTest(le, re, candLE, candRE, x, y) ==
    /\ re[x] > candLE[x]
    /\ le[x] < candRE[x]
    /\ re[y] > candLE[y]
    /\ le[y] < candRE[y]

\* (a call that stores the masks of all three axes)
generateOverlapMasksAllAxes(g, axis) ==
    /\ myOverlapMasks' =
          [myOverlapMasks EXCEPT ![g] =
              [k \in Axes |->
                  Array([b \in Grids |->
                            OverlapTest(gridLeftEdge[g], gridRightEdge[g],
                                        gridLeftEdge[b], gridRightEdge[b],
                                        x_dict[k], y_dict[k])])]]
    /\ GridOp("generateOverlapMasks", None, FALSE)
    /\ UNCHANGED <<tableVars, cacheVars, instDict>>

\* grid g's generateOverlapMasks(axis, LE, RE) with the hierarchy's tables
\* as LE and RE: one entry per grid, stored in self.myOverlapMasks[axis].
generateOverlapMasks(g, axis) ==
    /\ myOverlapMasks' =
          [myOverlapMasks EXCEPT ![g][axis] =
              Array([b \in Grids |->
                        OverlapTest(gridLeftEdge[g], gridRightEdge[g],
                                    gridLeftEdge[b], gridRightEdge[b],
                                    x_dict[axis], y_dict[axis])])]
    /\ GridOp("generateOverlapMasks", None, FALSE)
    /\ UNCHANGED <<tableVars, cacheVars, instDict>>

-----------------------------------------------------------------------------
(* SpecOverlap: the overlap masks of grids 1 and 2 against the hierarchy.  *)

\* Grid 1 spans the second cell or the second and third on each axis,
\* grid 2 any interval of 0..3, so that on an axis the two are apart,
\* touch, overlap in part, or one holds the other; grid 3 spans 0..3.
FirstOverlapBoxes ==
    {Box(i1, i2, i3) : i1 \in {<<1, 2>>, <<1, 3>>}, i2 \in {<<1, 2>>, <<1, 3>>},
                       i3 \in {<<1, 2>>, <<1, 3>>}}

OverlapIntervals == {iv \in (0..3) \X (0..3) : iv[1] < iv[2]}

SecondOverlapBoxes ==
    {Box(i1, i2, i3) : i1 \in OverlapIntervals, i2 \in OverlapIntervals,
                       i3 \in OverlapIntervals}

InitOverlap ==
    /\ \E b1 \in FirstOverlapBoxes, b2 \in SecondOverlapBoxes :
          Prepared(<<b1, b2, Box(<<0, 3>>, <<0, 3>>, <<0, 3>>)>>, <<1, 1, 0>>,
                   <<1, 1, 1>>)
    /\ FreshGrid
    /\ fileFields = {}
    /\ IdleParticles

NextOverlap ==
    \E g \in {1, 2}, axis \in Axes : generateOverlapMasks(g, axis)

SpecOverlap == InitOverlap /\ [][NextOverlap]_vars

-----------------------------------------------------------------------------
(* C8.  Symmetry of the overlap test; open intervals.                      *)

\* The length of the common part of grids a and b along axis k (negative
\* when they are apart).
CommonExtent(a, b, k) ==
    LET lo == IF gridLeftEdge[a][k] > gridLeftEdge[b][k]
              THEN gridLeftEdge[a][k] ELSE gridLeftEdge[b][k]
        hi == IF gridRightEdge[a][k] < gridRightEdge[b][k]
              THEN gridRightEdge[a][k] ELSE gridRightEdge[b][k]
    IN  hi - lo

\* The two axes other than axis: 1 -> {2, 3}, 2 -> {1, 3}, 3 -> {1, 2}.
InPlane(axis) == Axes \ {axis}

\* C8: for every axis and every two grids A and B whose masks for that
\* axis are computed, A's mask marks B iff B's mask marks A, and the entry
\* is true iff the two boxes have a common part of positive length on both
\* in-plane axes (boxes that only touch are not marked).
C8_OverlapSymmetricOpen ==
    \A axis \in Axes : \A a \in Grids :
        myOverlapMasks[a][axis].kind = "array" =>
            \A b \in Grids :
                /\ myOverlapMasks[a][axis].val[b]
                     = (\A k \in InPlane(axis) : CommonExtent(a, b, k) > 0)
                /\ myOverlapMasks[b][axis].kind = "array" =>
                     myOverlapMasks[a][axis].val[b] = myOverlapMasks[b][axis].val[a]

\* Grids 1 and 2 have both computed the mask of one axis; in that plane
\* they touch along an edge and neither marks the other, while along
\* another axis they overlap and mark each other.
C8_Witness ==
    \E axis \in Axes, other \in Axes :
        /\ myOverlapMasks[1][axis].kind = "array"
        /\ myOverlapMasks[2][axis].kind = "array"
        /\ myOverlapMasks[1][other].kind = "array"
        /\ myOverlapMasks[2][other].kind = "array"
        /\ \E k \in InPlane(axis) : CommonExtent(1, 2, k) = 0
        /\ ~myOverlapMasks[1][axis].val[2]
        /\ ~myOverlapMasks[2][axis].val[1]
        /\ myOverlapMasks[1][other].val[2]
        /\ myOverlapMasks[2][other].val[1]

-----------------------------------------------------------------------------
(* SpecOverlapCache: the overlap masks of grid 1 between calls of          *)
(* generateOverlapMasks and of the operations that clear its derived       *)
(* quantities.                                                             *)

NextOverlapCache ==
    \/ \E axis \in Axes : generateOverlapMasks(1, axis)
    \/ clearDerivedQuantities
    \/ clearAll

SpecOverlapCache == InitOverlap /\ [][NextOverlapCache]_vars

-----------------------------------------------------------------------------
(* C12  A grid's overlap mask is cached per axis.                          *)

\* C12 as claimed, second part: after clearDerivedQuantities or clearAll
\* the three overlap masks of the grid are not computed.
C12_Original ==
    lastOp \in Clears => \A axis \in Axes : myOverlapMasks[1][axis] = None

\* The axes whose entry a step changes.
ChangedAxes == {axis \in Axes : myOverlapMasks'[1][axis] # myOverlapMasks[1][axis]}

\* C12 amended: a call of generateOverlapMasks replaces the entry of one
\* axis by a computed mask and leaves the entries of the other two axes
\* and of the other grids as they are; clearDerivedQuantities and clearAll
\* leave all overlap masks as they are.
C12_OverlapMasksPerAxis ==
    [][/\ lastOp' = "generateOverlapMasks" =>
             /\ Cardinality(ChangedAxes) <= 1
             /\ \A axis \in ChangedAxes : myOverlapMasks'[1][axis].kind = "array"
             /\ \A g \in Grids \ {1} : myOverlapMasks'[g] = myOverlapMasks[g]
       /\ lastOp' \in Clears => myOverlapMasks' = myOverlapMasks]_vars

\* The mask of the first axis is computed and those of the other two are
\* not, and the derived quantities have just been cleared.
C12_Witness ==
    /\ lastOp \in Clears
    /\ myOverlapMasks[1][1].kind = "array"
    /\ myOverlapMasks[1][2] = None
    /\ myOverlapMasks[1][3] = None

-----------------------------------------------------------------------------
(* Fields of grid 1: __getitem__, __setitem__ (lines 56-91) and            *)
(* generateField (lines 255-308).  A field name is a string, here the      *)
(* sequence of its characters, so that endswith, startswith and the        *)
(* slices of the name are computed as the code computes them.              *)

Density == <<"D", "e", "n", "s", "i", "t", "y">>

Temperature == <<"T", "e", "m", "p", "e", "r", "a", "t", "u", "r", "e">>

X == <<"X">>

X_Density == <<"X", "_", "D", "e", "n", "s", "i", "t", "y">>

X_Fraction == <<"X", "_", "F", "r", "a", "c", "t", "i", "o", "n">>

XSquared == <<"X", "S", "q", "u", "a", "r", "e", "d">>

X_0_vcomp == <<"X", "_", "0", "_", "v", "c", "o", "m", "p">>

X_01_tcomp == <<"X", "_", "0", "1", "_", "t", "c", "o", "m", "p">>

X_Abs == <<"X", "_", "A", "b", "s">>

Entropy == <<"E", "n", "t", "r", "o", "p", "y">>

kHI == <<"k", "H", "I">>

kQ == <<"k", "Q">>

Mach == <<"M", "a", "c", "h">>

FieldNames ==
    {Density, Temperature, X, X_Density, X_Fraction, XSquared, X_0_vcomp,
     X_01_tcomp, X_Abs, Entropy, kHI, kQ, Mach}

\* s.endswith(suffix), s.startswith(prefix).
EndsWith(s, suffix) ==
    /\ Len(s) >= Len(suffix)
    /\ SubSeq(s, Len(s) - Len(suffix) + 1, Len(s)) = suffix

StartsWith(s, prefix) ==
    /\ Len(s) >= Len(prefix)
    /\ SubSeq(s, 1, Len(prefix)) = prefix

\* The slice s[lo:hi] of a string.
Slice(s, lo, hi) == SubSeq(s, SliceBound(lo, Len(s)) + 1, SliceBound(hi, Len(s)))

\* int(c) of a one-character string: its value, or -1 where int raises
\* ValueError.
Digits == <<"0", "1", "2", "3", "4", "5", "6", "7", "8", "9">>

IntOf(c) ==
    IF \E i \in DOMAIN Digits : <<Digits[i]>> = c
    THEN (CHOOSE i \in DOMAIN Digits : <<Digits[i]>> = c) - 1
    ELSE -1

\* A field array, by how it was obtained: read from the file, or computed
\* by an operation from the fields named, with the indices given.
FieldArray(op, of, index) == [op |-> op, of |-> of, index |-> index]

\* A lookup failure that names a key.
KeyError(key) == [kind |-> "KeyError", val |-> key]

\* self.data[key] = v.
Store(d, key, v) == [n \in DOMAIN d \cup {key} |-> IF n = key THEN v ELSE d[n]]

\* self.readDataFast(key), the reader of the grid's file: it makes the
\* field resident when the file holds it; when it does not, the lookup of
\* line 65 fails for the key.
readDataFast(d, key) ==
    IF key \in fileFields
    THEN [data |-> Store(d, key, FieldArray("file", <<key>>, <<>>)), ok |-> TRUE,
          val |-> FieldArray("file", <<key>>, <<>>)]
    ELSE [data |-> d, ok |-> FALSE, val |-> KeyError(key)]

\* __getitem__ with a string key, lines 60-65.
getitem(d, key) ==
    IF key \in DOMAIN d
    THEN [data |-> d, ok |-> TRUE, val |-> d[key]]
    ELSE readDataFast(d, key)

\* The derived-field registry fieldInfo and the columns of the chemistry
\* table hierarchy.rates.
FieldInfoKeys == {Entropy}

RateColumns == {kHI}

\* (a lookup failure that names nothing)
MissingFieldUnnamed(fieldName) == KeyError(<<>>)

\* Line 308: raise exceptions.KeyError, fieldName.
MissingField(fieldName) == KeyError(fieldName)

\* self[fieldName] = op(self[baryonField]): the right-hand side is looked
\* up first; when the lookup fails nothing is assigned.
DeriveFrom(d, fieldName, baryonField, op, index) ==
    LET b == getitem(d, baryonField)
    IN  IF ~b.ok
        THEN [data |-> b.data, result |-> b.val]
        ELSE [data |-> Store(b.data, fieldName,
                             FieldArray(op, <<baryonField>>, index)),
              result |-> None]

\* generateField(fieldName), lines 280-308, on the resident fields d: the
\* resident fields after it and None or what it raised.
generateField(d, fieldName) ==
    IF EndsWith(fieldName, <<"F", "r", "a", "c", "t", "i", "o", "n">>)
    THEN LET baryonField == Slice(fieldName, 0, -9)
                                \o <<"_", "D", "e", "n", "s", "i", "t", "y">>
             b == getitem(d, baryonField)
             t == getitem(b.data, Density)
         IN  IF ~b.ok THEN [data |-> b.data, result |-> b.val]
             ELSE IF ~t.ok THEN [data |-> t.data, result |-> t.val]
             ELSE [data |-> Store(t.data, fieldName,
                                  FieldArray("div", <<baryonField, Density>>, <<>>)),
                   result |-> None]
    ELSE IF EndsWith(fieldName, <<"S", "q", "u", "a", "r", "e", "d">>)
    THEN DeriveFrom(d, fieldName, Slice(fieldName, 0, -7), "squared", <<>>)
    ELSE IF EndsWith(fieldName, <<"_", "v", "c", "o", "m", "p">>)
    THEN LET index == IntOf(Slice(fieldName, -7, -6))
         IN  IF index < 0
             THEN [data |-> d, result |-> Raised("ValueError")]
             ELSE DeriveFrom(d, fieldName, Slice(fieldName, 0, -8), "vcomp",
                             <<index>>)
    ELSE IF EndsWith(fieldName, <<"_", "t", "c", "o", "m", "p">>)
    THEN LET i0 == IntOf(Slice(fieldName, -8, -7))
             i1 == IntOf(Slice(fieldName, -7, -6))
         IN  IF i0 < 0 \/ i1 < 0
             THEN [data |-> d, result |-> Raised("ValueError")]
             ELSE DeriveFrom(d, fieldName, Slice(fieldName, 0, -9), "tcomp",
                             <<i0, i1>>)
    ELSE IF EndsWith(fieldName, <<"A", "b", "s">>)
    THEN DeriveFrom(d, fieldName, Slice(fieldName, 0, -4), "abs", <<>>)
    ELSE IF fieldName \in FieldInfoKeys
    THEN [data |-> Store(d, fieldName, FieldArray("fieldInfo", <<fieldName>>, <<>>)),
          result |-> None]
    ELSE IF StartsWith(fieldName, <<"k">>)
    THEN LET t == getitem(d, Temperature)
         IN  IF ~t.ok THEN [data |-> t.data, result |-> t.val]
             ELSE IF fieldName \notin RateColumns
             THEN [data |-> t.data, result |-> KeyError(fieldName)]
             ELSE [data |-> Store(t.data, fieldName,
                                  FieldArray("rates", <<Temperature, fieldName>>, <<>>)),
                   result |-> None]
    ELSE [data |-> d, result |-> MissingField(fieldName)]

fieldFrame == <<tableVars, cacheVars, instDict, myOverlapMasks, fileFields>>

GenerateField ==
    /\ \E fieldName \in FieldNames :
          LET r == generateField(data, fieldName)
          IN  /\ data' = r.data
              /\ requested' = fieldName
              /\ lastResult' = r.result
    /\ lastOp' = "generateField"
    /\ warned' = FALSE
    /\ UNCHANGED fieldFrame
    /\ UNCHANGED particleVars

GetItem ==
    /\ \E key \in FieldNames :
          LET r == getitem(data, key)
          IN  /\ data' = r.data
              /\ requested' = key
              /\ lastResult' = IF r.ok THEN Value(r.val) ELSE r.val
    /\ lastOp' = "__getitem__"
    /\ warned' = FALSE
    /\ UNCHANGED fieldFrame
    /\ UNCHANGED particleVars

-----------------------------------------------------------------------------
(* SpecField: the fields of a grid whose file holds no field, the fields   *)
(* of a species, or those and the temperature.                             *)

FileChoices ==
    {{}, {Temperature}, {X, Density, X_Density},
     {X, Density, X_Density, Temperature}}

InitField ==
    /\ Prepared(<<Box(<<0, 1>>, <<0, 1>>, <<0, 1>>), Box(<<0, 1>>, <<0, 1>>, <<0, 1>>),
                  Box(<<0, 1>>, <<0, 1>>, <<0, 1>>)>>, <<0, 0, 0>>, <<1, 1, 1>>)
    /\ FreshGrid
    /\ fileFields \in FileChoices
    /\ IdleParticles

NextField == GenerateField \/ GetItem \/ clearAll

SpecField == InitField /\ [][NextField]_vars

-----------------------------------------------------------------------------
(* C13  generateField with a name that cannot be resolved fails with a     *)
(* lookup error that names the requested field and leaves the resident     *)
(* fields without an entry for the name.                                   *)

Suffixes ==
    {<<"F", "r", "a", "c", "t", "i", "o", "n">>, <<"S", "q", "u", "a", "r", "e", "d">>,
     <<"_", "v", "c", "o", "m", "p">>, <<"_", "t", "c", "o", "m", "p">>,
     <<"A", "b", "s">>}

\* The name is not a field of the file, matches no suffix rule and is not
\* in the registry.
NoSuffixRule(name) ==
    /\ name \notin fileFields
    /\ \A suffix \in Suffixes : ~EndsWith(name, suffix)
    /\ name \notin FieldInfoKeys

\* C13 as claimed: a call with such a name that does not resolve it raises
\* a lookup error naming the requested field.
C13_Original ==
    (lastOp = "generateField" /\ NoSuffixRule(requested) /\ lastResult # None) =>
        /\ lastResult = KeyError(requested)
        /\ requested \notin DOMAIN data

\* C13 amended: generateField with a name that is not a field of the file,
\* matches no suffix rule, is not in the registry and does not start with
\* "k" raises a lookup error naming the requested field and leaves the
\* resident fields as they were, without an entry for the name.
C13_MissingFieldNamed ==
    [][(lastOp' = "generateField" /\ NoSuffixRule(requested')
           /\ ~StartsWith(requested', <<"k">>)) =>
          /\ lastResult' = KeyError(requested')
          /\ data' = data
          /\ requested' \notin DOMAIN data']_vars

\* generateField("Mach") has failed on a grid with resident fields.
C13_Witness ==
    /\ lastOp = "generateField"
    /\ requested = Mach
    /\ lastResult = KeyError(Mach)
    /\ XSquared \in DOMAIN data
    /\ Mach \notin DOMAIN data

-----------------------------------------------------------------------------
(* SpecHandler: a particle geometry handler from its construction on: the  *)
(* index is built, data objects are chunked, their subsets are asked for   *)
(* the levels of their cells.                                              *)

IdleGrid ==
    /\ gridLeftEdge = [g \in Grids |-> <<0, 0, 0>>]
    /\ gridRightEdge = [g \in Grids |-> <<1, 1, 1>>]
    /\ gridLevels = [g \in Grids |-> 0]
    /\ ActiveDimensions = <<1, 1, 1>>
    /\ dx = <<1, 1>>
    /\ privChildMask = Absent
    /\ privChildIndices = Absent
    /\ myPrivateCoords = Absent
    /\ instDict = [myChildMask |-> Absent, myChildIndices |-> Absent,
                   coords |-> Absent]
    /\ myOverlapMasks = [g \in Grids |-> [a \in Axes |-> None]]
    /\ data = EmptyData
    /\ fileFields = {}
    /\ requested = <<>>
    /\ warned = FALSE


ParameterFiles(boxSizes, rootDims, fileCounts) ==
    {parse_parameter_file(b, r, n) : b \in boxSizes, r \in rootDims, n \in fileCounts}

InitHandler ==
    /\ IdleGrid
    /\ lastOp = "__init__"
    /\ lastResult = None
    /\ pf \in ParameterFiles({1}, {MaxRootDim}, 1..MaxDomains)
    /\ pc = "start"
    /\ domains = <<>>
    /\ nextDom = 1
    /\ oct_handler = NoOctree
    /\ octLog = <<>>
    /\ dobj \in {NewDobj(sel) : sel \in Selectors}
    /\ counts = <<>>
    /\ emitted = <<>>
    /\ nObjects = 1
    /\ subset = None
    /\ cellLevels = <<>>
    /\ provided \in BOOLEAN

\* An accessor is called on one of the subsets of the data object.
SubsetIres ==
    /\ dobj.chunk_info # None
    /\ \E i \in DOMAIN dobj.chunk_info.val :
          LET s == dobj.chunk_info.val[i]
          IN  \E lv \in [1..s.cell_count -> OctLevels] : Ires(s, lv)

SubsetCoords ==
    /\ dobj.chunk_info # None
    /\ \E i \in DOMAIN dobj.chunk_info.val :
          \/ Icoords(dobj.chunk_info.val[i])
          \/ Fcoords(dobj.chunk_info.val[i])

NextHandler ==
    \/ SetupDomains
    \/ InitializeOctree
    \/ Finalize
    \/ LinearlyCount
    \/ IdentifyBaseChunk
    \/ ChunkAll
    \/ ChunkIo
    \/ UseChunk
    \/ NewDataObject
    \/ SubsetIres
    \/ SubsetCoords

SpecHandler == InitHandler /\ [][NextHandler]_vars

-----------------------------------------------------------------------------
(* C3  For any selector and any count vector count_cells returns,          *)
(* _identify_base_chunk builds one subset per domain whose count is > 0,   *)
(* in domain order, each with that domain's count; no domain with count 0  *)
(* is in dobj._chunk_info; the cell_counts of the subsets sum to           *)
(* dobj.size, the total of the counts.                                     *)

\* The positions of the count vector with a count > 0, in order.
Positive(cs) == SelectSeq([i \in DOMAIN cs |-> i], LAMBDA i : cs[i] > 0)

C3_SubsetsArePositiveDomains ==
    dobj.chunk_info # None =>
        LET info == dobj.chunk_info.val
            pos == Positive(counts)
        IN  /\ Len(info) = Len(pos)
            /\ \A k \in DOMAIN info :
                  /\ info[k].domain = domains[pos[k]]
                  /\ info[k].cell_count = counts[pos[k]]
                  /\ info[k].cell_count > 0
                  /\ info[k].mask = Mask(dobj.selector)
            /\ Sum([k \in DOMAIN info |-> info[k].cell_count]) = dobj.size.val
            /\ dobj.size.val = Sum(counts)

\* Two domains, one with cells and one without: one subset.
C3_Witness ==
    /\ lastOp = "_identify_base_chunk"
    /\ Len(counts) = 2
    /\ counts[1] > 0
    /\ counts[2] = 0
    /\ Len(dobj.chunk_info.val) = 1
    /\ dobj.chunk_info.val[1].domain.domain_number = 0

-----------------------------------------------------------------------------
(* C4  In every execution of the handler the index is finalized exactly    *)
(* once, after _initialize_octree has been called for every domain, and    *)
(* before any linearly_count, select_octs, count_cells, icoords, fcoords   *)
(* or ires call; no insertion is issued after finalize.                    *)

Ops(op) == {i \in DOMAIN octLog : octLog[i].op = op}

QueryCalls == {i \in DOMAIN octLog : octLog[i].op \in Queries}

C4_FinalizeOnceBetween ==
    /\ Cardinality(Ops("finalize")) <= 1
    /\ pc \in {"count", "ready"} => Cardinality(Ops("finalize")) = 1
    /\ QueryCalls # {} => Ops("finalize") # {}
    /\ \A f \in Ops("finalize") :
          /\ \A i \in Ops("add") : i < f
          /\ \A q \in QueryCalls : f < q
          /\ \A d \in DOMAIN domains :
                \E i \in Ops("add") : octLog[i].arg = domains[d].domain_number
    /\ \A i \in DOMAIN octLog : octLog[i].ok

\* Two domains inserted, the index finalized, and every kind of query the
\* handler and its subsets issue has been issued.
C4_Witness ==
    /\ Len(domains) = 2
    /\ Cardinality(Ops("add")) = 2
    /\ Ops("select_octs") # {}
    /\ Ops("count_cells") # {}
    /\ Ops("linearly_count") # {}
    /\ Ops("ires") # {}

-----------------------------------------------------------------------------
(* C9  After _identify_base_chunk for a selection with subsets S1..Sn,     *)
(* that is while the current chunk is the one it installed for the         *)
(* selection, _chunk_all yields one chunk with objects [S1..Sn] and the    *)
(* total cell count as size, and _chunk_io yields n chunks in subset       *)
(* order, the i-th with Si alone and size Si.cell_count; their sizes sum   *)
(* to the size of the fused chunk.                                         *)

BaseChunk == YTDataChunk("all", dobj.chunk_info.val, dobj.size.val)

AtBaseChunk == dobj.chunk_info # None /\ dobj.current_chunk = Value(BaseChunk)

-----------------------------------------------------------------------------
(* C15  On one data object whose consumer makes yielded chunks its current *)
(* chunk, every chunk _chunk_all emits has as size the sum of cell_count   *)
(* over the subsets it wraps, and _identify_base_chunk, first or repeated, *)
(* leaves the current chunk at the fused chunk over all of _chunk_info.    *)

CellCounts(objs) == [i \in DOMAIN objs |-> objs[i].cell_count]

C15_Original ==
    /\ lastOp = "_chunk_all" =>
          \A i \in DOMAIN emitted :
             emitted[i].data_size = Sum(CellCounts(emitted[i].objs))
    /\ lastOp = "_identify_base_chunk" =>
          /\ dobj.chunk_info # None
          /\ dobj.current_chunk = Value(BaseChunk)

-----------------------------------------------------------------------------
(* SpecOctree: a client that uses the octree index directly, in any order. *)

InitOctree ==
    /\ IdleGrid
    /\ lastOp = "__init__"
    /\ lastResult = None
    /\ pf \in ParameterFiles({1}, {MaxRootDim}, 1..MaxDomains)
    /\ pc = "client"
    /\ domains = [i \in 1..pf.domain_count |-> [domain_number |-> i - 1]]
    /\ nextDom = 1
    /\ oct_handler = NewOctree
    /\ octLog = <<>>
    /\ dobj = NewDobj("all")
    /\ counts = <<>>
    /\ emitted = <<>>
    /\ nObjects = 1
    /\ subset = None
    /\ cellLevels = <<>>
    /\ provided = TRUE

clientFrame == <<pf, pc, domains, nextDom, octLog, dobj, counts, emitted,
                 nObjects, subset, cellLevels, provided>>

Outcome(r) == IF r.ok THEN None ELSE Raised("InvalidOctreeState")

ClientAdd ==
    /\ pc = "client"
    /\ Len(oct_handler.added) < MaxDomains
    /\ \E i \in DOMAIN domains :
          LET r == OctAdd(oct_handler, domains[i].domain_number)
          IN  /\ oct_handler' = r.oct
              /\ HandlerOp("add", Outcome(r))
    /\ UNCHANGED clientFrame

ClientFinalize ==
    /\ pc = "client"
    /\ LET r == OctFinalize(oct_handler)
       IN  /\ oct_handler' = r.oct
           /\ HandlerOp("finalize", Outcome(r))
    /\ UNCHANGED clientFrame

ClientQuery ==
    /\ pc = "client"
    /\ \E q \in Queries :
          LET r == OctQuery(oct_handler)
          IN  /\ oct_handler' = r.oct
              /\ HandlerOp(q, Outcome(r))
    /\ UNCHANGED clientFrame

NextOctree == ClientAdd \/ ClientFinalize \/ ClientQuery

SpecOctree == InitOctree /\ [][NextOctree]_vars

-----------------------------------------------------------------------------
(* C5  An insertion into the index after finalize() fails and leaves the   *)
(* index unchanged; an icoords, fcoords, ires or count_cells query before  *)
(* finalize() fails.                                                       *)

C5_SealedIndex ==
    [][/\ (lastOp' = "add" /\ oct_handler.finalized) =>
             /\ lastResult' = Raised("InvalidOctreeState")
             /\ oct_handler' = oct_handler
       /\ (lastOp' \in {"icoords", "fcoords", "ires", "count_cells"}
              /\ ~oct_handler.finalized) =>
             /\ lastResult' = Raised("InvalidOctreeState")
             /\ oct_handler' = oct_handler]_vars

\* An insertion has failed on a finalized index that holds a domain.
C5_Witness ==
    /\ lastOp = "add"
    /\ lastResult = Raised("InvalidOctreeState")
    /\ oct_handler.finalized
    /\ Len(oct_handler.added) = 1

-----------------------------------------------------------------------------
(* SpecWidth: the accessors of a subset of a chunked data object.          *)

\* The calls _initialize_oct_handler makes for domains doms.
InitLog(doms) ==
    [i \in DOMAIN doms |-> Call("add", doms[i].domain_number, TRUE)]
        \o <<Call("finalize", 0, TRUE), Call("linearly_count", 0, TRUE)>>

\* The index after _initialize_oct_handler for domains doms.
BuiltOctree(doms) ==
    [exists |-> TRUE,
     added |-> [i \in DOMAIN doms |-> doms[i].domain_number],
     finalized |-> TRUE]

InitWidth ==
    /\ IdleGrid
    /\ lastOp = "_identify_base_chunk"
    /\ lastResult = None
    /\ pf \in ParameterFiles(1..MaxBoxSize, 1..MaxRootDim, 1..MaxDomains)
    /\ pc = "ready"
    /\ domains = [i \in 1..pf.domain_count |-> [domain_number |-> i - 1]]
    /\ nextDom = Len(domains) + 1
    /\ oct_handler = BuiltOctree(domains)
    /\ octLog = InitLog(domains) \o SelectAndCount
    /\ counts \in [DOMAIN domains -> 0..MaxCount]
    /\ dobj = identify_base_chunk(NewDobj("all"), counts)
    /\ emitted = <<>>
    /\ nObjects = 1
    /\ \E i \in DOMAIN dobj.chunk_info.val : subset = dobj.chunk_info.val[i]
    /\ cellLevels \in [1..subset.cell_count -> OctLevels]
    /\ provided \in BOOLEAN

NextWidth ==
    \/ Ires(subset, cellLevels)
    \/ Fwidth(subset, cellLevels)
    \/ Icoords(subset)
    \/ Fcoords(subset)

SpecWidth == InitWidth /\ [][NextWidth]_vars

-----------------------------------------------------------------------------
(* C10  fwidth returns for each cell and axis i the width                  *)
(* (domain_right_edge[i] - domain_left_edge[i]) / domain_dimensions[i]     *)
(* / 2^r, r the level of the cell, also when the extent of the domain is   *)
(* not 1.                                                                  *)

C10_Original ==
    (lastOp = "fwidth" /\ lastResult.kind = "array") =>
        \A i \in 1..subset.cell_count : \A a \in Axes :
            lastResult.val[i][a] =
                Frac(pf.domain_right_edge[a] - pf.domain_left_edge[a],
                     pf.domain_dimensions[a] * Pow2(cellLevels[i]))

-----------------------------------------------------------------------------
(* C11  On a subset built by _identify_base_chunk every call of icoords,   *)
(* fcoords, ires and fwidth succeeds, a call repeated returns what the     *)
(* call before it returned, and the subset (its domain, mask and           *)
(* cell_count) is left as it was.                                          *)

Accessors == {"icoords", "fcoords", "ires", "fwidth"}

C11_Original ==
    [][lastOp' \in Accessors =>
          /\ lastResult'.kind = "array"
          /\ subset' = subset
          /\ lastOp = lastOp' => lastResult' = lastResult]_vars

=============================================================================
